---- MODULE Spec2Model ----
(***************************************************************************)
(* Model of tui-image (src/lib.rs): the ImageWidget builder and its        *)
(* Widget::render implementation.                                          *)
(*                                                                         *)
(* The widget is built with ImageWidget::new and the chained setters       *)
(* style / upscale / block / filter_mode, and is consumed by render.       *)
(* render computes the bounds it passes to DynamicImage::resize, centres   *)
(* the resized image in the target region and writes one half-block glyph  *)
(* per pair of pixel rows.                                                 *)
(*                                                                         *)
(* Two library calls decide the geometry and are modelled by what the      *)
(* libraries do at the call sites:                                         *)
(*   - DynamicImage::resize keeps the aspect ratio: it scales the image to *)
(*     the largest size that fits the given bounds (image crate,           *)
(*     resize_dimensions with fill = false, integer arithmetic, the        *)
(*     computed side clamped to at least 1);                               *)
(*   - Block::inner shrinks the area by one cell per border side with      *)
(*     saturating arithmetic.                                              *)
(* u16 arithmetic is modelled with its width: an overflowing operation     *)
(* panics in a build with overflow checks and wraps modulo 2^16 otherwise; *)
(* the build is an input of render.                                        *)
(***************************************************************************)
EXTENDS Integers, Sequences, FiniteSets, TLC

VARIABLES
    pc,            \* "new": widget under construction; "done": render returned or panicked
    image,         \* self.image: native dimensions [width, height]
    block,         \* self.block: "NoBlock" (None) or the borders of Some(block)
    style,         \* self.style
    scale_up,      \* self.scale_up
    filter_mode,   \* self.filter_mode
    buf_area,      \* buf.area of the buffer handed to render
    render_area,   \* the area argument of render
    region,        \* area after line 74-81: block interior or the render area
    image_area,    \* image_area after line 97: the bounds passed to resize
    resize_filter, \* the filter argument of the resize call, "unset" before the call
    resized,       \* dimensions of the image returned by resize (0x0 before it returns)
    x_start,       \* line 105
    y_start,       \* line 106
    cells,         \* buffer cells written by the loop: position -> [symbol, bg, fg]
    reads,         \* pixel coordinates passed to image.get_pixel by the loop
    styled,        \* rectangle given to buf.set_style (line 72) and its style
    wraps,         \* u16 operations whose exact result did not fit in 16 bits
    fault          \* "none" or the panic that ended render

vars == <<pc, image, block, style, scale_up, filter_mode, buf_area, render_area,
          region, image_area, resize_filter, resized, x_start, y_start, cells,
          reads, styled, wraps, fault>>

----------------------------------------------------------------------------
(* Bounds of the model *)

MaxW == 5          \* area widths 0..MaxW (plus the scenario width)
MaxH == 4          \* area heights 0..MaxH (plus the scenario height)
MaxLeft == 1       \* area.x in 0..MaxLeft
MaxTop == 1        \* area.y in 0..MaxTop
MaxImgW == 3       \* image widths 0..MaxImgW (plus the scenario widths)
MaxImgH == 3       \* image heights 0..MaxImgH (plus the scenario heights)

(* Program constants *)

U16Mod == 65536
U16Max == U16Mod - 1
HALF_BLOCK == "LOWER HALF BLOCK U+2584"

AreaWidths == (0..MaxW) \cup {10}
AreaHeights == (0..MaxH) \cup {5}
TallHeights == {(U16Mod \div 2) - 1, U16Mod \div 2}
ImgWidths == (0..MaxImgW) \cup {20, 30}
ImgHeights == (0..MaxImgH) \cup {10, 20}

Filters == {"Nearest", "Lanczos3"}
Styles == {"default", "styled"}
Blocks == {"BordersNone", "BordersAll"}   \* the borders of a configured block
Builds == {"checked", "wrapping"}         \* overflow checks on / off

----------------------------------------------------------------------------
(* Helpers *)

Min(a, b) == IF a <= b THEN a ELSE b
Max(a, b) == IF a >= b THEN a ELSE b

Rect(x, y, w, h) == [x |-> x, y |-> y, width |-> w, height |-> h]
Left(r) == r.x
Top(r) == r.y
Right(r) == r.x + r.width
Bottom(r) == r.y + r.height
Contains(r, c) == /\ Left(r) <= c[1] /\ c[1] < Right(r)
                  /\ Top(r) <= c[2] /\ c[2] < Bottom(r)
SubRect(inner, outer) == /\ Left(outer) <= Left(inner) /\ Right(inner) <= Right(outer)
                         /\ Top(outer) <= Top(inner) /\ Bottom(inner) <= Bottom(outer)

SatSub(a, b) == IF a >= b THEN a - b ELSE 0
SatAdd(a, b) == Min(a + b, U16Max)

(* Block::inner(area): interior of a block with the given borders. *)
BlockInner(b, area) ==
    IF b = "BordersAll"
    THEN LET x1 == Min(SatAdd(area.x, 1), Right(area))
             w1 == SatSub(area.width, 1)
             y1 == Min(SatAdd(area.y, 1), area.y + area.height)
             h1 == SatSub(area.height, 1)
         IN  Rect(x1, y1, SatSub(w1, 1), SatSub(h1, 1))
    ELSE area

(* Lines 74-81: the target region. *)
TargetRegion(b, area) == IF b = "NoBlock" THEN area ELSE BlockInner(b, area)

(* area.height * 2 in u16 (lines 86 and 88). *)
HeightTimes2(h) == (h * 2) % U16Mod
MulOverflows(h) == h * 2 > U16Max

(* Lines 91-97: round down to even. *)
RoundEven(n) == IF n % 2 = 1 THEN n - 1 ELSE n

(* Lines 83-89: image_area.width / image_area.height before rounding. *)
TargetWidth(up, area, img) ==
    IF ~up THEN Min(area.width, img.width) % U16Mod ELSE area.width
TargetHeight(up, area, img) ==
    IF ~up THEN Min(HeightTimes2(area.height), img.height) % U16Mod
    ELSE HeightTimes2(area.height)

(* Lines 83-97: the bounds passed to resize. *)
ImageArea(up, area, img) ==
    Rect(area.x, area.y, RoundEven(TargetWidth(up, area, img)),
         RoundEven(TargetHeight(up, area, img)))

(* DynamicImage::resize(nwidth, nheight, filter), line 99: the dimensions   *)
(* of the returned image.  The aspect ratio is kept; the side that is not   *)
(* pinned to its bound is computed by an integer division by the native     *)
(* width or height, which panics when that divisor is zero.  (The sides     *)
(* are u32 and the products u64; no value of a u16 region reaches them.)    *)
ResizeDimensions(width, height, nwidth, nheight) ==
    LET ratio == width * nheight
        nratio == nwidth * height
        use_width == nratio <= ratio
        divisor == IF use_width THEN width ELSE height
    IN  IF divisor = 0
        THEN [ok |-> FALSE, width |-> 0, height |-> 0]
        ELSE LET raw == IF use_width THEN (height * nwidth) \div width
                        ELSE (width * nheight) \div height
                 intermediate == Max(1, raw)
             IN  IF use_width
                 THEN [ok |-> TRUE, width |-> nwidth, height |-> intermediate]
                 ELSE [ok |-> TRUE, width |-> intermediate, height |-> nheight]

(* Line 102: the filter argument of the resize call. *)
ResizeFilter(configured) == "Lanczos3"

(* u16 subtraction and addition: exact result, wrapped result. *)
Wrap(n) == n % U16Mod
Fits(n) == 0 <= n /\ n <= U16Max

(* Line 105: (area.width - image.width() as u16) / 2 + image_area.left() *)
XStartDiff(area, img) == area.width - Wrap(img.width)
XStartSum(area, img, ia) == Wrap(XStartDiff(area, img)) \div 2 + Left(ia)
(* Variant: the image width added instead of subtracted. *)
XStartSignError(area, img, ia) ==
    Wrap((area.width + Wrap(img.width)) \div 2 + Left(ia))
XStart(area, img, ia) == Wrap(XStartSum(area, img, ia))

(* Line 106: (area.height - image.height() as u16 / 2) / 2 + image_area.top() *)
YStartDiff(area, img) == area.height - (Wrap(img.height) \div 2)
YStartSum(area, img, ia) == Wrap(YStartDiff(area, img)) \div 2 + Top(ia)
(* Variant: the image rows added instead of subtracted. *)
YStartSignError(area, img, ia) ==
    Wrap((area.height + (Wrap(img.height) \div 2)) \div 2 + Top(ia))
(* Variant: the free rows halved twice. *)
YStartDoublyHalved(area, img, ia) ==
    Wrap((Wrap(YStartDiff(area, img)) \div 2) \div 2 + Top(ia))
YStart(area, img, ia) == Wrap(YStartSum(area, img, ia))

(* image.get_pixel(x, y) of the resized image: an RGBA pixel that depends   *)
(* on its position.  Reading outside the image panics.                      *)
InImage(img, p) == p[1] < img.width /\ p[2] < img.height
GetPixel(p) == <<(3 * p[1] + 5 * p[2]) % 256, p[1] % 256, p[2] % 256, 255>>

(* Color::Rgb(pixel[0], pixel[1], pixel[2]) *)
Rgb(pixel) == <<"Rgb", pixel[1], pixel[2], pixel[3]>>

(* Line 108: (0..image.height() as u16).step_by(2).enumerate() *)
RowPairs(img) == {ya \in 0..Wrap(img.height) : 2 * ya < Wrap(img.height)}
YPixel(y_actual) == 2 * y_actual

(* Lines 108-109: the iterations of the nested loop, and their order. *)
Iterations(img) == {it \in (0..Wrap(img.width)) \X RowPairs(img) : it[1] < Wrap(img.width)}
IterIndex(img, it) == it[2] * Wrap(img.width) + it[1]

(* Line 110: the buffer position of an iteration. *)
CellPos(xs, ys, it) == <<Wrap(xs + it[1]), Wrap(ys + it[2])>>

(* Lines 112-113: the pixels an iteration reads. *)
BgSource(it) == <<it[1], YPixel(it[2])>>
FgSource(it) == <<it[1], YPixel(it[2]) + 1>>

(* Variant: background and foreground sources exchanged. *)
CellForSwapped(it) ==
    [symbol |-> HALF_BLOCK, bg |-> Rgb(GetPixel(FgSource(it))),
     fg |-> Rgb(GetPixel(BgSource(it)))]

(* Lines 115-117: the cell an iteration writes. *)
CellFor(it) ==
    [symbol |-> HALF_BLOCK, bg |-> Rgb(GetPixel(BgSource(it))),
     fg |-> Rgb(GetPixel(FgSource(it)))]

(* Lines 110-113: the panic that ends an iteration, if any. *)
IterFault(build, buf, img, xs, ys, it) ==
    IF build = "checked" /\ (~Fits(xs + it[1]) \/ ~Fits(ys + it[2]))
    THEN "add_overflow"
    ELSE IF ~Contains(buf, CellPos(xs, ys, it)) THEN "buffer_oob"
    ELSE IF ~InImage(img, BgSource(it)) THEN "pixel_oob"
    ELSE IF ~Fits(YPixel(it[2]) + 1) /\ build = "checked" THEN "add_overflow"
    ELSE IF ~InImage(img, FgSource(it)) THEN "pixel_oob"
    ELSE "none"

(* The pixel reads an iteration attempts before it ends. *)
IterReads(build, buf, img, xs, ys, it) ==
    IF (build = "checked" /\ (~Fits(xs + it[1]) \/ ~Fits(ys + it[2])))
       \/ ~Contains(buf, CellPos(xs, ys, it))
    THEN {}
    ELSE IF ~InImage(img, BgSource(it)) THEN {BgSource(it)}
    ELSE {BgSource(it), FgSource(it)}

(* The first iteration that panics, as a set of at most one element. *)
FirstFault(build, buf, img, xs, ys) ==
    LET faulty == {it \in Iterations(img) : IterFault(build, buf, img, xs, ys, it) # "none"}
    IN  {it \in faulty : \A o \in faulty : IterIndex(img, it) <= IterIndex(img, o)}

(* Lines 108-119: the loop.  Iterations run in order until one panics. *)
RunLoop(build, buf, img, xs, ys) ==
    LET first == FirstFault(build, buf, img, xs, ys)
        stop == IF first = {} THEN {} ELSE {CHOOSE it \in first : TRUE}
        completed == {it \in Iterations(img) :
                        \A f \in stop : IterIndex(img, it) < IterIndex(img, f)}
        written == {CellPos(xs, ys, it) : it \in completed}
        source(c) == <<Wrap(c[1] - xs + U16Mod), Wrap(c[2] - ys + U16Mod)>>
    IN  [cells |-> [c \in written |-> CellFor(source(c))],
         reads |-> UNION {IterReads(build, buf, img, xs, ys, it) : it \in completed \cup stop},
         wraps |-> {"add" : it \in {i \in completed \cup stop :
                                      ~Fits(xs + i[1]) \/ ~Fits(ys + i[2])}},
         fault |-> IF stop = {} THEN "none"
                   ELSE IterFault(build, buf, img, xs, ys, CHOOSE it \in stop : TRUE)]

NoCells == [c \in {} |-> 0]
NoImage == [width |-> 0, height |-> 0]

(* Widget::render, lines 70-120. *)
RenderResult(w, area, buf, build) ==
    LET reg == TargetRegion(w.block, area)
        ia == ImageArea(w.scale_up, reg, w.image)
        mul == MulOverflows(reg.height)
        rd == ResizeDimensions(w.image.width, w.image.height, ia.width, ia.height)
        img == [width |-> rd.width, height |-> rd.height]
        subx == ~Fits(XStartDiff(reg, img))
        suby == ~Fits(YStartDiff(reg, img))
        addx == ~Fits(XStartSum(reg, img, ia))
        addy == ~Fits(YStartSum(reg, img, ia))
        xs == XStart(reg, img, ia)
        ys == YStart(reg, img, ia)
        loop == RunLoop(build, buf, img, xs, ys)
        base == [region |-> reg, image_area |-> Rect(reg.x, reg.y, 0, 0),
                 resize_filter |-> "unset", resized |-> NoImage,
                 x_start |-> 0, y_start |-> 0, cells |-> NoCells, reads |-> {},
                 wraps |-> {}, fault |-> "none"]
    IN  IF mul /\ build = "checked"
        THEN [base EXCEPT !.wraps = {"mul"}, !.fault = "mul_overflow"]
        ELSE LET s1 == [base EXCEPT !.wraps = IF mul THEN {"mul"} ELSE {},
                                    !.image_area = ia,
                                    !.resize_filter = ResizeFilter(w.filter_mode)]
        IN  IF ~rd.ok THEN [s1 EXCEPT !.fault = "div_by_zero"]
        ELSE LET s2 == [s1 EXCEPT !.resized = img,
                                  !.wraps = @ \cup (IF subx THEN {"sub"} ELSE {})]
        IN  IF subx /\ build = "checked" THEN [s2 EXCEPT !.fault = "offset_sub_overflow"]
        ELSE LET s3 == [s2 EXCEPT !.wraps = @ \cup (IF addx THEN {"add"} ELSE {})]
        IN  IF addx /\ build = "checked" THEN [s3 EXCEPT !.fault = "offset_add_overflow"]
        ELSE LET s4 == [s3 EXCEPT !.x_start = xs,
                                  !.wraps = @ \cup (IF suby THEN {"sub"} ELSE {})]
        IN  IF suby /\ build = "checked" THEN [s4 EXCEPT !.fault = "offset_sub_overflow"]
        ELSE LET s5 == [s4 EXCEPT !.wraps = @ \cup (IF addy THEN {"add"} ELSE {})]
        IN  IF addy /\ build = "checked" THEN [s5 EXCEPT !.fault = "offset_add_overflow"]
        ELSE [s5 EXCEPT !.y_start = ys, !.cells = loop.cells, !.reads = loop.reads,
                        !.wraps = @ \cup loop.wraps, !.fault = loop.fault]

----------------------------------------------------------------------------
(* Inputs of render: a buffer and an area inside it.  A buffer holds        *)
(* width * height cells with a u16 count, so a tall buffer is narrow.       *)

BufW == MaxLeft + Max(MaxW, 10)
BufH == MaxTop + Max(MaxH, 5)
SmallBuffer == Rect(0, 0, BufW, BufH)
TallBuffer == Rect(0, 0, 1, (U16Mod \div 2) + MaxTop)

SmallAreas == {Rect(l, t, w, h) : l \in 0..MaxLeft, t \in 0..MaxTop,
                                  w \in AreaWidths, h \in AreaHeights}
TallAreas == {Rect(0, t, w, h) : t \in 0..MaxTop, w \in 0..1, h \in TallHeights}

RenderInputs ==
    {[buf |-> SmallBuffer, area |-> a] : a \in {r \in SmallAreas : SubRect(r, SmallBuffer)}}
    \cup {[buf |-> TallBuffer, area |-> a] : a \in {r \in TallAreas : SubRect(r, TallBuffer)}}

----------------------------------------------------------------------------
(* The state machine *)

(* ImageWidget::new, lines 33-41 *)
Init ==
    /\ pc = "new"
    /\ image \in {[width |-> iw, height |-> ih] : iw \in ImgWidths, ih \in ImgHeights}
    /\ block = "NoBlock"
    /\ style = "default"
    /\ scale_up = FALSE
    /\ filter_mode = "Lanczos3"
    /\ buf_area = Rect(0, 0, 0, 0)
    /\ render_area = Rect(0, 0, 0, 0)
    /\ region = Rect(0, 0, 0, 0)
    /\ image_area = Rect(0, 0, 0, 0)
    /\ resize_filter = "unset"
    /\ resized = NoImage
    /\ x_start = 0
    /\ y_start = 0
    /\ cells = NoCells
    /\ reads = {}
    /\ styled = [area |-> Rect(0, 0, 0, 0), style |-> "default"]
    /\ wraps = {}
    /\ fault = "none"

rendering == <<buf_area, render_area, region, image_area, resize_filter, resized,
               x_start, y_start, cells, reads, styled, wraps, fault>>

(* ImageWidget::style, lines 44-47 *)
SetStyle(s) ==
    /\ pc = "new"
    /\ style' = s
    /\ UNCHANGED <<pc, image, block, scale_up, filter_mode, rendering>>

(* ImageWidget::upscale, lines 51-54 *)
Upscale(upscale) ==
    /\ pc = "new"
    /\ scale_up' = upscale
    /\ UNCHANGED <<pc, image, block, style, filter_mode, rendering>>

(* ImageWidget::block, lines 56-59 *)
SetBlock(b) ==
    /\ pc = "new"
    /\ block' = b
    /\ UNCHANGED <<pc, image, style, scale_up, filter_mode, rendering>>

(* ImageWidget::filter_mode, lines 63-66 *)
FilterMode(f) ==
    /\ pc = "new"
    /\ filter_mode' = f
    /\ UNCHANGED <<pc, image, block, style, scale_up, rendering>>

(* Widget::render, lines 70-120 *)
Render(in, build) ==
    /\ pc = "new"
    /\ \E r \in {RenderResult([image |-> image, block |-> block, scale_up |-> scale_up,
                               filter_mode |-> filter_mode], in.area, in.buf, build)} :
           /\ pc' = "done"
           /\ buf_area' = in.buf
           /\ render_area' = in.area
           /\ styled' = [area |-> in.area, style |-> style]
           /\ block' = "NoBlock"
           /\ region' = r.region
           /\ image_area' = r.image_area
           /\ resize_filter' = r.resize_filter
           /\ resized' = r.resized
           /\ x_start' = r.x_start
           /\ y_start' = r.y_start
           /\ cells' = r.cells
           /\ reads' = r.reads
           /\ wraps' = r.wraps
           /\ fault' = r.fault
    /\ UNCHANGED <<image, style, scale_up, filter_mode>>

Next ==
    \/ \E s \in Styles : SetStyle(s)
    \/ \E u \in BOOLEAN : Upscale(u)
    \/ \E b \in Blocks : SetBlock(b)
    \/ \E f \in Filters : FilterMode(f)
    \/ \E in \in RenderInputs, build \in Builds : Render(in, build)

Spec == Init /\ [][Next]_vars

----------------------------------------------------------------------------
(* Stages of render *)

ResizeReturned == pc = "done" /\ fault \notin {"mul_overflow", "div_by_zero"}
OffsetsComputed ==
    ResizeReturned /\ fault \notin {"offset_sub_overflow", "offset_add_overflow"}
GlyphRows == Cardinality({c[2] : c \in DOMAIN cells})
Abs(n) == IF n < 0 THEN -n ELSE n

----------------------------------------------------------------------------
(* Properties *)

(* C1: every buffer cell render writes an image glyph to lies inside the    *)
(* target region (the block interior when a block is configured, the       *)
(* render area otherwise).                                                  *)
C1_CellsInsideRegion ==
    pc = "done" => \A c \in DOMAIN cells : Contains(region, c)

C1_Witness ==
    /\ pc = "done"
    /\ DOMAIN cells # {}
    /\ region # render_area
    /\ region.x > 0 /\ region.y > 0
    /\ resized.width = region.width

(* C2: with upscale disallowed the resized image has width <= region       *)
(* width, height <= 2 * region height, and even width and height.           *)
C2_NoUpscaleFitsAndEven ==
    (ResizeReturned /\ ~scale_up) =>
        /\ resized.width <= region.width
        /\ resized.height <= 2 * region.height
        /\ resized.width % 2 = 0
        /\ resized.height % 2 = 0

(* C3: with upscale allowed the resized image has exactly the region's     *)
(* size in pixels (width, height * 2), each rounded down to even, whatever  *)
(* the native size and aspect ratio.                                        *)
C3_UpscaleExactFill ==
    (ResizeReturned /\ scale_up) =>
        /\ resized.width = RoundEven(region.width)
        /\ resized.height = RoundEven(2 * region.height)

(* C4: a region or an image of zero width or height makes render write no   *)
(* cell and return without a panic.                                         *)
C4_ZeroAreaRendersNothing ==
    (pc = "done" /\ (region.width = 0 \/ region.height = 0
                     \/ image.width = 0 \/ image.height = 0)) =>
        DOMAIN cells = {} /\ fault = "none"

(* C5: for every column x of the resized image and every row y below half   *)
(* its height, the cell at (x_start + x, y_start + y) holds the half block  *)
(* with background = RGB of pixel (x, 2y), foreground = RGB of pixel        *)
(* (x, 2y + 1); a 10x5 region with a 20x20 image, no upscale, gives 10      *)
(* columns x 5 rows.                                                        *)
C5_CellsShowPixelPairs ==
    /\ OffsetsComputed =>
         \A x \in 0..(resized.width - 1), y \in 0..((resized.height \div 2) - 1) :
            /\ <<x_start + x, y_start + y>> \in DOMAIN cells
            /\ cells[<<x_start + x, y_start + y>>] =
                  [symbol |-> HALF_BLOCK,
                   bg |-> <<"Rgb">> \o SubSeq(GetPixel(<<x, 2 * y>>), 1, 3),
                   fg |-> <<"Rgb">> \o SubSeq(GetPixel(<<x, 2 * y + 1>>), 1, 3)]
    /\ (pc = "done" /\ ~scale_up /\ region.width = 10 /\ region.height = 5
        /\ image = [width |-> 20, height |-> 20])
         => /\ resized = [width |-> 10, height |-> 10]
            /\ {c[1] - x_start : c \in DOMAIN cells} = 0..9
            /\ {c[2] - y_start : c \in DOMAIN cells} = 0..4

C5_Witness ==
    /\ pc = "done" /\ ~scale_up
    /\ region.width = 10 /\ region.height = 5
    /\ image = [width |-> 20, height |-> 20]
    /\ Cardinality(DOMAIN cells) = 50
    /\ fault = "none"

(* C6: every pixel the loop reads is inside the resized image.              *)
C6_ReadsInsideImage ==
    pc = "done" => \A p \in reads : InImage(resized, p)

(* C7: when the resized image occupies fewer cells than the region on an    *)
(* axis, the offset on that axis is non-negative and offset + image extent  *)
(* <= region extent (extent = resized width, glyph rows written).           *)
C7_OffsetsKeepImageInside ==
    OffsetsComputed =>
        /\ resized.width < region.width =>
              /\ x_start - region.x >= 0
              /\ x_start - region.x + resized.width <= region.width
        /\ GlyphRows < region.height =>
              /\ y_start - region.y >= 0
              /\ y_start - region.y + GlyphRows <= region.height

C7_Witness ==
    /\ OffsetsComputed
    /\ DOMAIN cells # {}
    /\ resized.width < region.width /\ GlyphRows < region.height
    /\ x_start > region.x /\ y_start > region.y

(* C8: the image is centred: unused columns left and right of it differ by  *)
(* at most one, unused rows above and below it differ by at most one.       *)
C8_Centred ==
    OffsetsComputed =>
        LET l == x_start - region.x
            r == region.width - resized.width - l
            a == y_start - region.y
            b == region.height - (resized.height \div 2) - a
        IN  /\ l >= 0 /\ r >= 0 /\ Abs(l - r) <= 1
            /\ a >= 0 /\ b >= 0 /\ Abs(a - b) <= 1

C8_Witness ==
    /\ OffsetsComputed
    /\ DOMAIN cells # {}
    /\ region.height - (resized.height \div 2) >= 3
    /\ (region.height - (resized.height \div 2)) % 2 = 1
    /\ region.width - resized.width >= 2

(* C9: the filter passed to resize is the filter configured on the widget.  *)
C9_ConfiguredFilterUsed ==
    resize_filter # "unset" => resize_filter = filter_mode

(* C10: no 16-bit operation of render wraps or underflows.                  *)
C10_NoU16Wrap ==
    pc = "done" =>
        /\ wraps = {}
        /\ fault \notin {"mul_overflow", "offset_sub_overflow",
                         "offset_add_overflow", "add_overflow"}

====
